---- MODULE Spec2Model ----
(***************************************************************************)
(* aws-cleaner: the EBS snapshot clean-up pipeline.                        *)
(*                                                                         *)
(* The repository holds two copies of package services:                    *)
(*   "services"  src/services/snapshots.go   (imported by main)            *)
(*   "part_000"  src/unnamed/part_000        (an earlier copy)             *)
(* and main (src/Dockerfile, lines 33-156).  The variable `variant` says   *)
(* which copy of the package the run executes.                             *)
(***************************************************************************)
EXTENDS Integers, Sequences, FiniteSets, TLC

\* ------------------------------------------------------------------ bounds
MaxLen == 3      \* longest inventory the Inventory Source returns
MaxTime == 2     \* creation timestamps are 1..MaxTime

\* ------------------------------------------------------------------ data
\* types.Snapshot.StartTime is a *time.Time; NoTime is the nil pointer.
NoTime == 0
Times == 1..MaxTime
TimeOrNil == {NoTime} \cup Times

\* A snapshot record: id (unique within one fetch) and StartTime.  VolumeId
\* is only copied into log lines and is left out.
Inventories ==
  UNION { { [i \in 1..n |-> [id |-> i, ts |-> f[i]]] : f \in [1..n -> TimeOrNil] }
          : n \in 0..MaxLen }

\* *int: nil or a pointer to a value.
Nil == [set |-> FALSE, val |-> 0]
Ptr(v) == [set |-> TRUE, val |-> v]
Counts == (0 - 1)..MaxLen
IntPtrs == {Nil} \cup {Ptr(v) : v \in Counts}

Variants == {"services", "part_000"}
SupportedSortBy == {"created_time_asc", "created_time_desc"}
SortByEnv == {"", "created_time_asc", "created_time_desc", "id"}
SortByValues == {"created_time", "created_time_asc", "created_time_desc", "id"}
ResourceTypes == {"", "ebs-snapshot", "rds-snapshot"}
Outcomes == {"ok", "error", "timeout"}
Terminal == {"Done", "Aborted", "Halted", "Exited", "Panic"}

\* ------------------------------------------------------------------ log
Entry(level, msg, id, ts) == [level |-> level, msg |-> msg, id |-> id, ts |-> ts]

\* StartTime.Format("2006-01-02 15:04:05"): the text of a timestamp.
FormatTime(t) == ToString(t)

\* ts := "-"; if snap.StartTime != nil { ts = snap.StartTime.Format(...) }
TimeOrPlaceholder(t) == IF t = NoTime THEN "-" ELSE FormatTime(t)

PrintEntry(snap, message) == Entry("info", message, snap.id, TimeOrPlaceholder(snap.ts))

\* printSnapShotsList of services/snapshots.go: one Infof per record.
printSnapShotsList(snapshotList, message) ==
  [i \in 1..Len(snapshotList) |-> PrintEntry(snapshotList[i], message)]

\* printSnapShotsList of part_000 calls snap.StartTime.Format on the pointer:
\* a nil StartTime panics; the records before it have been logged.
FirstNil(snapshotList) ==
  IF \E i \in 1..Len(snapshotList) : snapshotList[i].ts = NoTime
  THEN CHOOSE i \in 1..Len(snapshotList) :
         /\ snapshotList[i].ts = NoTime
         /\ \A j \in 1..(i - 1) : snapshotList[j].ts # NoTime
  ELSE 0

printSnapShotsList_part000(snapshotList, message) ==
  LET k == FirstNil(snapshotList) IN
  IF k = 0
  THEN [log |-> printSnapShotsList(snapshotList, message), panic |-> FALSE]
  ELSE [log |-> printSnapShotsList(SubSeq(snapshotList, 1, k - 1), message), panic |-> TRUE]

\* ------------------------------------------------------------------ sort
\* The less function handed to sort.Slice in services/snapshots.go.
less(a, b, order) ==
  IF order = "desc"
  THEN IF a.ts = NoTime THEN FALSE
       ELSE IF b.ts = NoTime THEN TRUE
       ELSE a.ts > b.ts
  ELSE IF a.ts = NoTime THEN FALSE
       ELSE IF b.ts = NoTime THEN TRUE
       ELSE a.ts < b.ts

\* The less function of part_000: no nil checks, both pointers dereferenced.
less_part000(a, b, order) ==
  IF order = "desc" THEN a.ts > b.ts ELSE a.ts < b.ts

Swap(s, i, j) == [s EXCEPT ![i] = s[j], ![j] = s[i]]

\* sort.Slice on a slice of at most 12 elements is an insertion sort:
\*   for i := 1; i < n; i++ { for j := i; j > 0 && less(j, j-1); j-- { swap(j, j-1) } }
\* (1-based here).  useNilChecks selects the less function.
RECURSIVE SiftDown(_, _, _, _)
SiftDown(s, j, order, useNilChecks) ==
  IF j > 1 /\ (IF useNilChecks THEN less(s[j], s[j - 1], order)
                               ELSE less_part000(s[j], s[j - 1], order))
  THEN SiftDown(Swap(s, j, j - 1), j - 1, order, useNilChecks)
  ELSE s

RECURSIVE InsertionSort(_, _, _, _)
InsertionSort(s, i, order, useNilChecks) ==
  IF i > Len(s) THEN s
  ELSE InsertionSort(SiftDown(s, i, order, useNilChecks), i + 1, order, useNilChecks)

sortByCreatedTime(snapshotList, order) ==
  [ret |-> InsertionSort(snapshotList, 2, order, TRUE), panic |-> FALSE]

\* part_000: with two or more records every record takes part in at least one
\* comparison, so any nil StartTime is dereferenced and the sort panics.
sortByCreatedTime_part000(snapshotList, order) ==
  IF Len(snapshotList) >= 2 /\ FirstNil(snapshotList) # 0
  THEN [ret |-> snapshotList, panic |-> TRUE]
  ELSE [ret |-> InsertionSort(snapshotList, 2, order, FALSE), panic |-> FALSE]

\* ------------------------------------------------------------------ select
BothSetMsg == "Both deleteCount and keepCount are set. Only one parameter should be used."
KeepNegativeMsg == "Keep count must be greater than 0"

Result(ret, lg) == [ret |-> ret, log |-> lg, panic |-> FALSE]

\* Faulty slices: one element too few.
SliceFromOffByOne(s, k) == SubSeq(s, k + 2, Len(s))
SliceToOffByOne(s, d) == SubSeq(s, 1, d - 1)

\* snapshotList[k:] and snapshotList[:d] of Go, 0-based bounds.
SliceFrom(s, k) == SubSeq(s, k + 1, Len(s))
SliceTo(s, d) == SubSeq(s, 1, d)

\* A faulty getToDeleteSnapshots: no both-set check, keepCount wins.
getToDeleteSnapshotsBothPicksKeep(snapshotList, deleteCount, keepCount) ==
  LET n == Len(snapshotList) IN
  IF n = 0 THEN Result(<<>>, <<>>)
  ELSE IF keepCount.set
  THEN IF keepCount.val < 0 THEN Result(<<>>, <<Entry("error", KeepNegativeMsg, 0, "")>>)
       ELSE IF keepCount.val = 0 THEN Result(snapshotList, <<>>)
       ELSE IF keepCount.val >= n THEN Result(<<>>, <<>>)
       ELSE Result(SliceFrom(snapshotList, keepCount.val), <<>>)
  ELSE IF deleteCount.set
  THEN IF deleteCount.val <= 0 THEN Result(<<>>, <<>>)
       ELSE IF deleteCount.val >= n THEN Result(snapshotList, <<>>)
       ELSE Result(SliceTo(snapshotList, deleteCount.val), <<>>)
  ELSE Result(<<>>, <<>>)

\* A faulty getToDeleteSnapshots: keepCount deletes the first k records
\* instead of the records after them.
getToDeleteSnapshotsKeepDeletesHead(snapshotList, deleteCount, keepCount) ==
  LET n == Len(snapshotList) IN
  IF n = 0 THEN Result(<<>>, <<>>)
  ELSE IF deleteCount.set /\ keepCount.set
  THEN Result(<<>>, <<Entry("error", BothSetMsg, 0, "")>>)
  ELSE IF keepCount.set
  THEN IF keepCount.val < 0 THEN Result(<<>>, <<Entry("error", KeepNegativeMsg, 0, "")>>)
       ELSE IF keepCount.val = 0 THEN Result(snapshotList, <<>>)
       ELSE IF keepCount.val >= n THEN Result(<<>>, <<>>)
       ELSE Result(SliceTo(snapshotList, keepCount.val), <<>>)
  ELSE IF deleteCount.set
  THEN IF deleteCount.val <= 0 THEN Result(<<>>, <<>>)
       ELSE IF deleteCount.val >= n THEN Result(snapshotList, <<>>)
       ELSE Result(SliceTo(snapshotList, deleteCount.val), <<>>)
  ELSE Result(<<>>, <<>>)

\* getToDeleteSnapshots of services/snapshots.go.
getToDeleteSnapshots(snapshotList, deleteCount, keepCount) ==
  LET n == Len(snapshotList) IN
  IF n = 0 THEN Result(<<>>, <<>>)
  ELSE IF deleteCount.set /\ keepCount.set
  THEN Result(<<>>, <<Entry("error", BothSetMsg, 0, "")>>)
  ELSE IF keepCount.set
  THEN IF keepCount.val < 0 THEN Result(<<>>, <<Entry("error", KeepNegativeMsg, 0, "")>>)
       ELSE IF keepCount.val = 0 THEN Result(snapshotList, <<>>)
       ELSE IF keepCount.val >= n THEN Result(<<>>, <<>>)
       ELSE Result(SliceFrom(snapshotList, keepCount.val), <<>>)
  ELSE IF deleteCount.set
  THEN IF deleteCount.val <= 0 THEN Result(<<>>, <<>>)
       ELSE IF deleteCount.val >= n THEN Result(snapshotList, <<>>)
       ELSE Result(SliceTo(snapshotList, deleteCount.val), <<>>)
  ELSE Result(<<>>, <<>>)

\* getToDeleteSnapshots of part_000: no check of a negative keepCount, so
\* snapshotList[*keepCount:] panics (slice bounds out of range); a negative
\* deleteCount returns the whole list.
getToDeleteSnapshots_part000(snapshotList, deleteCount, keepCount) ==
  LET n == Len(snapshotList) IN
  IF n = 0 THEN Result(<<>>, <<>>)
  ELSE IF deleteCount.set /\ keepCount.set
  THEN Result(<<>>, <<Entry("error", BothSetMsg, 0, "")>>)
  ELSE IF keepCount.set
  THEN IF keepCount.val >= n THEN Result(<<>>, <<>>)
       ELSE IF keepCount.val < 0 THEN [ret |-> <<>>, log |-> <<>>, panic |-> TRUE]
       ELSE Result(SliceFrom(snapshotList, keepCount.val), <<>>)
  ELSE IF deleteCount.set
  THEN IF deleteCount.val = 0 THEN Result(<<>>, <<>>)
       ELSE IF deleteCount.val >= n \/ deleteCount.val < 0 THEN Result(snapshotList, <<>>)
       ELSE Result(SliceTo(snapshotList, deleteCount.val), <<>>)
  ELSE Result(<<>>, <<>>)

\* ------------------------------------------------------------------ main
\* strconv.Atoi on the decimal texts the model draws.
CountStrs == {"", "abc"} \cup {ToString(v) : v \in Counts}
Atoi(s) ==
  IF \E v \in Counts : ToString(v) = s
  THEN [ok |-> TRUE, val |-> CHOOSE v \in Counts : ToString(v) = s]
  ELSE [ok |-> FALSE, val |-> 0]

\* var deleteCount *int; set only when the text is non-empty and parses.
ParseCount(s) == IF s # "" /\ Atoi(s).ok THEN Ptr(Atoi(s).val) ELSE Nil

VARIABLES
  variant,         \* which copy of package services runs
  inventory,       \* the snapshots matching the tag filter, at the Inventory Source
  pc,              \* position in main / CleanupSnapshots
  deleteCount,     \* *int
  keepCount,       \* *int
  sortBy,          \* string
  fetchErr,        \* err of DescribeSnapshots is non-nil
  out,             \* out.Snapshots (sorted in place by the Sort step)
  removeSnapShot,  \* the local slice of CleanupSnapshots
  idx,             \* position of the running range loop (1-based)
  log,             \* entries written through package logger
  calls,           \* Deletion Executor invocations: client.DeleteSnapshot calls
  prevRun          \* the earlier run of the scheduled job: how many records it
                   \* fetched, selected, attempted and deleted

vars == <<variant, inventory, pc, deleteCount, keepCount, sortBy, fetchErr, out,
          removeSnapShot, idx, log, calls, prevRun>>

Init ==
  /\ variant \in Variants
  /\ inventory \in Inventories
  /\ pc = "main"
  /\ deleteCount = Nil
  /\ keepCount = Nil
  /\ sortBy = ""
  /\ fetchErr = FALSE
  /\ out = <<>>
  /\ removeSnapShot = <<>>
  /\ idx = 1
  /\ log = <<>>
  /\ calls = <<>>
  /\ prevRun = <<>>

\* main reads the environment and validates it.  invalidVar is set by an
\* empty AWS_REGION, TAG_KEY or TAG_VALUE (filterSet is false), an empty
\* RESOURCE_TYPE, or a count that strconv.Atoi rejects.
BadCount(s) == s # "" /\ ~Atoi(s).ok
InvalidVar(filterSet, resourceType, deleteCountStr, keepCountStr) ==
  ~filterSet \/ resourceType = "" \/ BadCount(deleteCountStr) \/ BadCount(keepCountStr)

MainErrors(filterSet, resourceType, deleteCountStr, keepCountStr) ==
  (IF ~filterSet THEN <<Entry("error", "AWS_REGION/TAG_KEY/TAG_VALUE is empty!", 0, "")>> ELSE <<>>)
  \o (IF resourceType = "" THEN <<Entry("error", "RESOURCE_TYPE is empty!", 0, "")>> ELSE <<>>)
  \o (IF BadCount(deleteCountStr) THEN <<Entry("error", "Invalid DELETE_COUNT!", 0, "")>> ELSE <<>>)
  \o (IF BadCount(keepCountStr) THEN <<Entry("error", "Invalid KEEP_COUNT", 0, "")>> ELSE <<>>)

\* Count texts that stand for the three ways a count is read: unset,
\* rejected by Atoi, accepted.
SomeCountStrs == {"", "abc", "0"}

\* main returns before calling CleanupSnapshots: invalidVar, a failed
\* config.LoadDefaultConfig, or an unsupported RESOURCE_TYPE.  The variables
\* deleteCount, keepCount and sortBy are the arguments of CleanupSnapshots,
\* which this run never calls.
MainReturnsEarly ==
  /\ pc = "main"
  /\ \E resourceType \in ResourceTypes, filterSet \in BOOLEAN, sdkOk \in BOOLEAN,
        deleteCountStr \in SomeCountStrs, keepCountStr \in SomeCountStrs :
       LET invalidVar == InvalidVar(filterSet, resourceType, deleteCountStr, keepCountStr)
       IN /\ invalidVar \/ ~sdkOk \/ resourceType # "ebs-snapshot"
          /\ log' = IF invalidVar
                    THEN log \o MainErrors(filterSet, resourceType, deleteCountStr, keepCountStr)
                    ELSE IF ~sdkOk
                    THEN Append(log, Entry("error", "Unable to load SDK config", 0, ""))
                    ELSE Append(log, Entry("error", "Unsupported resource type", 0, ""))
  /\ pc' = "Aborted"
  /\ UNCHANGED <<prevRun, variant, inventory, deleteCount, keepCount, sortBy, fetchErr, out,
                 removeSnapShot, idx, calls>>

\* main, all checks passed: services.CleanupSnapshots(ec2Client, tagKey,
\* tagValue, deleteCount, keepCount, sortBy), with "created_time" for an
\* unset SORT_BY.
MainCallsCleanup ==
  /\ pc = "main"
  /\ \E deleteCountStr \in CountStrs, keepCountStr \in CountStrs, sortByStr \in SortByEnv :
       /\ ~InvalidVar(TRUE, "ebs-snapshot", deleteCountStr, keepCountStr)
       /\ deleteCount' = ParseCount(deleteCountStr)
       /\ keepCount' = ParseCount(keepCountStr)
       /\ sortBy' = IF sortByStr = "" THEN "created_time" ELSE sortByStr
  /\ pc' = "Fetch"
  /\ UNCHANGED <<prevRun, variant, inventory, fetchErr, out, removeSnapShot, idx, log, calls>>

\* client.DescribeSnapshots succeeds: out.Snapshots is the matching inventory.
FetchOk ==
  /\ pc = "Fetch"
  /\ fetchErr' = FALSE
  /\ out' = inventory
  /\ removeSnapShot' = inventory
  /\ pc' = "EmptyCheck"
  /\ UNCHANGED <<prevRun, variant, inventory, deleteCount, keepCount, sortBy, idx, log, calls>>

\* A faulty Fetch: the error is logged and the run goes on with a result.
FetchFailContinues ==
  /\ pc = "Fetch"
  /\ fetchErr' = TRUE
  /\ log' = Append(log, Entry("error", "Error in cleanupSnapshots: ", 0, ""))
  /\ out' = inventory
  /\ removeSnapShot' = inventory
  /\ pc' = "EmptyCheck"
  /\ UNCHANGED <<prevRun, variant, inventory, deleteCount, keepCount, sortBy, idx, calls>>

\* client.DescribeSnapshots fails: the SDK returns (nil, err).  The error is
\* logged, there is no return, and `out.Snapshots` dereferences the nil out:
\* the run dies with a nil-pointer panic.
FetchFail ==
  /\ pc = "Fetch"
  /\ fetchErr' = TRUE
  /\ log' = Append(log, Entry("error", "Error in cleanupSnapshots: ", 0, ""))
  /\ pc' = "Panic"
  /\ UNCHANGED <<prevRun, variant, inventory, deleteCount, keepCount, sortBy, out,
                 removeSnapShot, idx, calls>>

\* if len(out.Snapshots) == 0 { log; return }
EmptyCheck ==
  /\ pc = "EmptyCheck"
  /\ IF Len(out) = 0
     THEN /\ log' = Append(log, Entry("info", "No snapshots found for given tag filter", 0, ""))
          /\ pc' = "Done"
     ELSE /\ log' = log
          /\ pc' = "Sort"
  /\ UNCHANGED <<prevRun, variant, inventory, deleteCount, keepCount, sortBy, fetchErr, out,
                 removeSnapShot, idx, calls>>

\* The Sort step with a supported key: sortByCreatedTime sorts in place
\* (out.Snapshots and removeSnapShot share the array).
SortSupported ==
  /\ pc = "Sort"
  /\ sortBy \in SupportedSortBy
  /\ LET order == IF sortBy = "created_time_asc" THEN "asc" ELSE "desc"
         sorted == IF variant = "services"
                   THEN sortByCreatedTime(removeSnapShot, order)
                   ELSE sortByCreatedTime_part000(removeSnapShot, order)
     IN IF sorted.panic
        THEN /\ pc' = "Panic"
             /\ UNCHANGED <<out, removeSnapShot>>
        ELSE /\ out' = sorted.ret
             /\ removeSnapShot' = sorted.ret
             /\ pc' = IF order = "desc" THEN "SortPrint" ELSE "Select"
  /\ UNCHANGED <<prevRun, variant, inventory, deleteCount, keepCount, sortBy, fetchErr, idx, log, calls>>

\* case "created_time_desc": printSnapShotsList(removeSnapShot, "Sort by created time desc: ")
SortPrint ==
  /\ pc = "SortPrint"
  /\ LET printed == IF variant = "services"
                    THEN [log |-> printSnapShotsList(removeSnapShot, "Sort by created time desc: "),
                          panic |-> FALSE]
                    ELSE printSnapShotsList_part000(removeSnapShot, "Sort by created time desc: ")
     IN /\ log' = log \o printed.log
        /\ pc' = IF printed.panic THEN "Panic" ELSE "Select"
  /\ UNCHANGED <<prevRun, variant, inventory, deleteCount, keepCount, sortBy, fetchErr, out,
                 removeSnapShot, idx, calls>>

\* A faulty default case: the error is logged and the list is sorted
\* ascending instead of the run ending.
SortUnsupportedFallsBackToAsc ==
  /\ pc = "Sort"
  /\ sortBy \notin SupportedSortBy
  /\ log' = Append(log, Entry("error", "Not support that sortBy!", 0, ""))
  /\ out' = InsertionSort(removeSnapShot, 2, "asc", TRUE)
  /\ removeSnapShot' = out'
  /\ pc' = "Select"
  /\ UNCHANGED <<prevRun, variant, inventory, deleteCount, keepCount, sortBy, fetchErr, idx, calls>>

\* The default case of the switch: log, then return (services/snapshots.go)
\* or os.Exit(1) (part_000).
SortUnsupported ==
  /\ pc = "Sort"
  /\ sortBy \notin SupportedSortBy
  /\ log' = Append(log, Entry("error", "Not support that sortBy!", 0, ""))
  /\ pc' = IF variant = "services" THEN "Halted" ELSE "Exited"
  /\ UNCHANGED <<prevRun, variant, inventory, deleteCount, keepCount, sortBy, fetchErr, out,
                 removeSnapShot, idx, calls>>

\* removeSnapShot = getToDeleteSnapshots(removeSnapShot, deleteCount, keepCount)
SelectStep ==
  /\ pc = "Select"
  /\ LET r == IF variant = "services"
              THEN getToDeleteSnapshots(removeSnapShot, deleteCount, keepCount)
              ELSE getToDeleteSnapshots_part000(removeSnapShot, deleteCount, keepCount)
         dbg == IF variant = "services" THEN <<>>
                ELSE <<Entry("debug", "getToDeleteSnapshots", 0, "")>>
     IN /\ log' = log \o dbg \o r.log
        /\ IF r.panic
           THEN /\ pc' = "Panic"
                /\ UNCHANGED <<removeSnapShot, idx>>
           ELSE /\ removeSnapShot' = r.ret
                /\ idx' = 1
                /\ pc' = "Report"
  /\ UNCHANGED <<prevRun, variant, inventory, deleteCount, keepCount, sortBy, fetchErr, out, calls>>

\* A faulty Report: each record is deleted as soon as it is printed.
ReportStepDeletesToo ==
  /\ pc = "Report"
  /\ idx <= Len(removeSnapShot)
  /\ log' = Append(log, PrintEntry(removeSnapShot[idx], "Delete Snapshot: "))
  /\ calls' = Append(calls, [id |-> removeSnapShot[idx].id, outcome |-> "ok"])
  /\ idx' = idx + 1
  /\ UNCHANGED <<prevRun, variant, inventory, pc, deleteCount, keepCount, sortBy, fetchErr, out,
                 removeSnapShot>>

\* One iteration of printSnapShotsList(removeSnapShot, "Delete Snapshot: ").
ReportStep ==
  /\ pc = "Report"
  /\ idx <= Len(removeSnapShot)
  /\ IF variant = "part_000" /\ removeSnapShot[idx].ts = NoTime
     THEN /\ pc' = "Panic"
          /\ UNCHANGED <<log, idx>>
     ELSE /\ log' = Append(log, PrintEntry(removeSnapShot[idx], "Delete Snapshot: "))
          /\ idx' = idx + 1
          /\ pc' = pc
  /\ UNCHANGED <<prevRun, variant, inventory, deleteCount, keepCount, sortBy, fetchErr, out,
                 removeSnapShot, calls>>

\* The print loop ends; the range loop over removeSnapShot starts.
ReportEnd ==
  /\ pc = "Report"
  /\ idx > Len(removeSnapShot)
  /\ pc' = "DeleteEach"
  /\ idx' = 1
  /\ UNCHANGED <<prevRun, variant, inventory, deleteCount, keepCount, sortBy, fetchErr, out,
                 removeSnapShot, log, calls>>

\* The inventory without the snapshot of the given id.
RECURSIVE Without(_, _)
Without(s, id) ==
  IF s = <<>> THEN <<>>
  ELSE IF Head(s).id = id THEN Without(Tail(s), id)
  ELSE <<Head(s)>> \o Without(Tail(s), id)

\* deleteSnapShot of services/snapshots.go: one client.DeleteSnapshot call
\* under a 10 s deadline; an error (a timeout included) is logged and
\* returned, and the caller ignores the returned error.
deleteSnapShot(snap, outcome) ==
  /\ calls' = Append(calls, [id |-> snap.id, outcome |-> outcome])
  /\ IF outcome = "ok"
     THEN /\ log' = Append(log, Entry("info", "Deleted snapshot", snap.id, TimeOrPlaceholder(snap.ts)))
          /\ inventory' = Without(inventory, snap.id)
     ELSE /\ log' = Append(log, Entry("error", "Failed to delete snapshot", snap.id, outcome))
          /\ inventory' = inventory

\* deleteSnapShot of part_000: the call is commented out; it returns nil.
deleteSnapShot_part000(snap) ==
  UNCHANGED <<calls, log, inventory>>

\* A faulty delete loop: the first failed call ends the loop.
DeleteStepStopsOnError ==
  /\ pc = "DeleteEach"
  /\ idx <= Len(removeSnapShot)
  /\ \E outcome \in Outcomes :
       /\ IF variant = "services"
          THEN deleteSnapShot(removeSnapShot[idx], outcome)
          ELSE deleteSnapShot_part000(removeSnapShot[idx])
       /\ IF outcome = "ok"
          THEN idx' = idx + 1 /\ pc' = pc
          ELSE idx' = idx /\ pc' = "Done"
  /\ UNCHANGED <<prevRun, variant, deleteCount, keepCount, sortBy, fetchErr, out, removeSnapShot>>

\* One iteration of: for _, snap := range removeSnapShot { deleteSnapShot(snap, client) }
DeleteStep ==
  /\ pc = "DeleteEach"
  /\ idx <= Len(removeSnapShot)
  /\ IF variant = "services"
     THEN \E outcome \in Outcomes : deleteSnapShot(removeSnapShot[idx], outcome)
     ELSE deleteSnapShot_part000(removeSnapShot[idx])
  /\ idx' = idx + 1
  /\ UNCHANGED <<prevRun, variant, pc, deleteCount, keepCount, sortBy, fetchErr, out, removeSnapShot>>

\* The range loop ends and CleanupSnapshots returns.
DeleteEnd ==
  /\ pc = "DeleteEach"
  /\ idx > Len(removeSnapShot)
  /\ pc' = "Done"
  /\ UNCHANGED <<prevRun, variant, inventory, deleteCount, keepCount, sortBy, fetchErr, out,
                 removeSnapShot, idx, log, calls>>

Next ==
  \/ MainReturnsEarly
  \/ MainCallsCleanup
  \/ FetchOk
  \/ FetchFail
  \/ EmptyCheck
  \/ SortSupported
  \/ SortPrint
  \/ SortUnsupported
  \/ SelectStep
  \/ ReportStep
  \/ ReportEnd
  \/ DeleteStep
  \/ DeleteEnd

\* One run of the program.
Spec == Init /\ [][Next]_vars

\* The run is a single sequential process, and every client.DeleteSnapshot
\* call returns within its 10 s deadline: an iteration of the delete loop that
\* can be taken is taken, and so is the return that follows the loop.
FairSpec == Spec /\ WF_vars(DeleteStep) /\ WF_vars(DeleteEnd)

\* The scheduled job (a CronJob, every 10 minutes) starts the program again
\* after a completed run, with the same environment: main hands the same
\* deleteCount, keepCount and sortBy to CleanupSnapshots, which fetches the
\* inventory as the first run left it.  The new process has a fresh log.
RunAgain ==
  /\ pc = "Done"
  /\ prevRun = <<>>
  /\ prevRun' = <<[fetched |-> Len(out),
                    selected |-> Len(removeSnapShot),
                    attempted |-> Len(calls),
                    deleted |-> Cardinality({i \in 1..Len(calls) : calls[i].outcome = "ok"})]>>
  /\ pc' = "Fetch"
  /\ fetchErr' = FALSE
  /\ out' = <<>>
  /\ removeSnapShot' = <<>>
  /\ idx' = 1
  /\ log' = <<>>
  /\ calls' = <<>>
  /\ UNCHANGED <<variant, inventory, deleteCount, keepCount, sortBy>>

NextTwice ==
  \/ Next
  \/ RunAgain

\* Two runs of the program, one after the other.
SpecTwice == Init /\ [][NextTwice]_vars

\* sortByCreatedTime and getToDeleteSnapshots called directly, on any list
\* (empty and unsorted included), any pair of pointers and any sort key.
InitFn ==
  /\ variant \in Variants
  /\ inventory \in Inventories
  /\ pc \in {"Sort", "Select"}
  /\ deleteCount \in IntPtrs
  /\ keepCount \in IntPtrs
  /\ sortBy \in SortByValues
  /\ fetchErr = FALSE
  /\ out = inventory
  /\ removeSnapShot = inventory
  /\ idx = 1
  /\ log = <<>>
  /\ calls = <<>>
  /\ prevRun = <<>>

NextFn ==
  \/ SortSupported
  \/ SortPrint
  \/ SortUnsupported
  \/ SelectStep

SpecFn == InitFn /\ [][NextFn]_vars

\* ================================================================== claims
OnlyKeep == keepCount.set /\ ~deleteCount.set
OnlyDelete == deleteCount.set /\ ~keepCount.set
BothSet == keepCount.set /\ deleteCount.set

Min(a, b) == IF a <= b THEN a ELSE b

\* The elements of s at 0-based positions a..b-1, in order.
Positions(s, a, b) == [i \in 1..(IF b > a THEN b - a ELSE 0) |-> s[a + i]]

ErrorLogged(before, after, msg) ==
  /\ Len(after) > Len(before)
  /\ \E i \in (Len(before) + 1)..Len(after) :
       after[i].level = "error" /\ after[i].msg = msg

\* C1: called on a non-empty list of length n with only keepCount = k >= 0
\* set, getToDeleteSnapshots (either copy) returns exactly the elements at
\* positions k..n-1 in their order: the whole list when k = 0, nothing when
\* k >= n, and none of the first min(k, n) elements.
C1_KeepCountDeletesTail ==
  [][ (pc = "Select" /\ OnlyKeep /\ keepCount.val >= 0 /\ Len(removeSnapShot) > 0)
      => LET n == Len(removeSnapShot)
             k == keepCount.val
         IN /\ pc' = "Report"
            /\ removeSnapShot' = Positions(removeSnapShot, k, n)
            /\ (k = 0 => removeSnapShot' = removeSnapShot)
            /\ (k >= n => removeSnapShot' = <<>>)
            /\ \A i \in 1..Min(k, n) : \A j \in 1..Len(removeSnapShot') :
                 removeSnapShot'[j] # removeSnapShot[i] ]_vars

C1_Witness ==
  /\ pc = "Report"
  /\ OnlyKeep
  /\ keepCount.val = 1
  /\ Len(out) = 3
  /\ out[1].ts = 1 /\ out[2].ts = 2 /\ out[3].ts = NoTime
  /\ removeSnapShot = <<out[2], out[3]>>

\* C2: with only deleteCount = d <= 0 set, getToDeleteSnapshots returns the
\* empty sequence for every input list, in both copies.
C2_NonPositiveDeleteCountDeletesNothing ==
  [][ (pc = "Select" /\ OnlyDelete /\ deleteCount.val <= 0)
      => (pc' = "Report" /\ removeSnapShot' = <<>>) ]_vars

\* C3: called on a non-empty list of length n with only deleteCount = d > 0
\* set, getToDeleteSnapshots returns exactly the first min(d, n) elements in
\* their order (the whole list when d >= n); the remainder is kept.
C3_DeleteCountDeletesHead ==
  [][ (pc = "Select" /\ OnlyDelete /\ deleteCount.val > 0 /\ Len(removeSnapShot) > 0)
      => LET n == Len(removeSnapShot)
             d == deleteCount.val
         IN /\ pc' = "Report"
            /\ removeSnapShot' = Positions(removeSnapShot, 0, Min(d, n))
            /\ (d >= n => removeSnapShot' = removeSnapShot)
            /\ \A i \in (Min(d, n) + 1)..n : \A j \in 1..Len(removeSnapShot') :
                 removeSnapShot'[j] # removeSnapShot[i] ]_vars

C3_Witness ==
  /\ pc = "Report"
  /\ OnlyDelete
  /\ deleteCount.val = 2
  /\ Len(out) = 3
  /\ out[1].ts = 2 /\ out[2].ts = 1 /\ out[3].ts = NoTime
  /\ removeSnapShot = <<out[1], out[2]>>

\* The result of a sort of `before` in direction `order`.
SortedByCreatedTime(before, after, order) ==
  /\ Len(after) = Len(before)
  /\ {after[i] : i \in 1..Len(after)} = {before[i] : i \in 1..Len(before)}
  /\ \A i, j \in 1..Len(after) :
       i < j =>
         /\ (after[i].ts = NoTime => after[j].ts = NoTime)
         /\ (after[i].ts # NoTime /\ after[j].ts # NoTime =>
               IF order = "asc" THEN after[i].ts <= after[j].ts
                                ELSE after[i].ts >= after[j].ts)

\* C4: sortByCreatedTime, in both directions and in both copies, returns a
\* permutation of its input in which every record without a timestamp comes
\* after every record with one, and the timestamped records are earlier-first
\* (asc) or later-first (desc).
C4_SortPutsMissingTimestampsLast ==
  [][ (pc = "Sort" /\ sortBy \in SupportedSortBy)
      => /\ pc' \in {"Select", "SortPrint"}
         /\ SortedByCreatedTime(removeSnapShot, removeSnapShot',
                                IF sortBy = "created_time_asc" THEN "asc" ELSE "desc") ]_vars

\* C5 as stated: with both keepCount and deleteCount set, getToDeleteSnapshots
\* returns the empty sequence and logs the policy-conflict error, for any
\* input list (the empty one included) and any pair of values.
C5_BothSetAnyList ==
  [][ (pc = "Select" /\ BothSet)
      => /\ pc' = "Report"
         /\ removeSnapShot' = <<>>
         /\ ErrorLogged(log, log', BothSetMsg) ]_vars

\* C5 amended: with both keepCount and deleteCount set, getToDeleteSnapshots
\* called on a non-empty list returns the empty sequence and logs the
\* policy-conflict error, for any pair of values; on the empty list it
\* returns the empty sequence and does not log the error.
C5_BothSetNonEmptyList ==
  [][ (pc = "Select" /\ BothSet)
      => /\ pc' = "Report"
         /\ removeSnapShot' = <<>>
         /\ (Len(removeSnapShot) > 0 <=> ErrorLogged(log, log', BothSetMsg)) ]_vars

C5_Witness ==
  /\ pc = "Report"
  /\ variant = "services"
  /\ keepCount = Ptr(0)
  /\ deleteCount = Ptr(0)
  /\ Len(out) = 2
  /\ removeSnapShot = <<>>
  /\ log = <<Entry("error", BothSetMsg, 0, "")>>

\* C6: with only keepCount set, to a negative value, getToDeleteSnapshots
\* called on a non-empty list returns the empty sequence and logs an error;
\* it does not panic, in either copy.
C6_NegativeKeepCountIsAnError ==
  [][ (pc = "Select" /\ OnlyKeep /\ keepCount.val < 0 /\ Len(removeSnapShot) > 0)
      => /\ pc' = "Report"
         /\ removeSnapShot' = <<>>
         /\ ErrorLogged(log, log', KeepNegativeMsg) ]_vars

\* C7: with a sort key other than created_time_asc and created_time_desc
\* ("created_time", which main substitutes for an unset SORT_BY, included)
\* the run never reaches Select, Report or DeleteEach and never calls the
\* Deletion Executor: it ends in the Sort step (return or os.Exit), unless it
\* ended earlier, in main, on a failed fetch or on an empty inventory.
C7_UnsupportedSortKeyHalts ==
  sortBy \notin SupportedSortBy =>
    /\ pc \notin {"SortPrint", "Select", "Report", "DeleteEach"}
    /\ calls = <<>>
    /\ (pc = "Done" => out = <<>>)
    /\ (pc = "Panic" => fetchErr)
    /\ (pc \in {"Halted", "Exited"} =>
          /\ removeSnapShot = inventory
          /\ log[Len(log)] = Entry("error", "Not support that sortBy!", 0, ""))

C7_Witness ==
  /\ pc = "Halted"
  /\ sortBy = "created_time"
  /\ keepCount = Ptr(0)
  /\ ~deleteCount.set
  /\ Len(inventory) = 2
  /\ calls = <<>>

ReportedEntry(e) == e.msg = "Delete Snapshot: "
DeletionEntry(e) == e.msg \in {"Deleted snapshot", "Failed to delete snapshot"}

\* C8: when DescribeSnapshots returns an error the run goes from Fetch
\* straight to a terminal state: nothing is sorted, selected, reported or
\* deleted.
C8_FetchErrorStopsTheRun ==
  fetchErr =>
    /\ pc \in Terminal
    /\ out = <<>>
    /\ removeSnapShot = <<>>
    /\ calls = <<>>
    /\ Len(log) = 1
    /\ log[1] = Entry("error", "Error in cleanupSnapshots: ", 0, "")

C8_Witness ==
  /\ fetchErr
  /\ pc = "Panic"
  /\ Len(inventory) = 2
  /\ sortBy = "created_time_asc"
  /\ keepCount = Ptr(0)
  /\ ~deleteCount.set

\* C9: whenever the delete loop is running or a Deletion Executor call has
\* been made, every record of the delete-set has already been logged with
\* "Delete Snapshot: ", in selection order.
C9_ReportBeforeFirstDelete ==
  (pc = "DeleteEach" \/ calls # <<>>) =>
    SelectSeq(log, ReportedEntry) = printSnapShotsList(removeSnapShot, "Delete Snapshot: ")

C9_Witness ==
  /\ pc = "DeleteEach"
  /\ Len(removeSnapShot) = 3
  /\ Len(calls) = 1
  /\ calls[1].outcome = "error"
  /\ Len(SelectSeq(log, ReportedEntry)) = 3

CallIds == [i \in 1..Len(calls) |-> calls[i].id]
Ids(s) == [i \in 1..Len(s) |-> s[i].id]

\* C10: in services/snapshots.go the Deletion Executor is called once per
\* record of the delete-set, in selection order, whatever the earlier calls
\* returned (errors and timeouts included): during the loop the calls made
\* are exactly the records before the loop position, at Done they are the
\* whole delete-set, and a run that enters DeleteEach reaches Done.
C10_EveryRecordAttemptedInOrder ==
  /\ [](variant = "services" /\ pc = "DeleteEach"
          => CallIds = Ids(SubSeq(removeSnapShot, 1, idx - 1)))
  /\ [](variant = "services" /\ pc = "Done" => CallIds = Ids(removeSnapShot))
  /\ [](Len(SelectSeq(log, DeletionEntry)) = Len(calls))
  /\ (pc = "DeleteEach" ~> pc = "Done")

C10_Witness ==
  /\ pc = "Done"
  /\ variant = "services"
  /\ Len(removeSnapShot) = 3
  /\ Len(calls) = 3
  /\ calls[1].outcome = "timeout"
  /\ calls[2].outcome = "error"
  /\ calls[3].outcome = "ok"

\* The first run attempted every record it selected and every attempt
\* succeeded.
FirstRunDeletedAll ==
  /\ prevRun # <<>>
  /\ prevRun[1].attempted = prevRun[1].selected
  /\ prevRun[1].deleted = prevRun[1].selected

\* The second run has computed its delete-set.
SecondRunSelected == prevRun # <<>> /\ pc \in {"Report", "DeleteEach", "Done"}

\* deleteCount = d alone with 0 < d < n, n the size of the first run's fetch.
PartialDeleteCount ==
  /\ prevRun # <<>>
  /\ OnlyDelete
  /\ 0 < deleteCount.val
  /\ deleteCount.val < prevRun[1].fetched

\* C11 as stated: for any inventory, sort key and directive, after a first
\* run whose deletions all succeeded, the delete-set the second run computes
\* is empty.
C11_SecondRunDeletesNothing ==
  (FirstRunDeletedAll /\ SecondRunSelected) => removeSnapShot = <<>>

\* C11 amended: the same, for every directive except a deleteCount d alone
\* with 0 < d < n: there the second run selects the first min(d, n - d) of the
\* n - d records the first run left.
C11_SecondRunDeletesNothingUnlessPartialDelete ==
  FirstRunDeletedAll =>
    /\ (~PartialDeleteCount => calls = <<>>)
    /\ (SecondRunSelected =>
          IF PartialDeleteCount
          THEN /\ Len(out) = prevRun[1].fetched - deleteCount.val
               /\ removeSnapShot = Positions(out, 0, Min(deleteCount.val, Len(out)))
          ELSE removeSnapShot = <<>>)

C11_Witness ==
  /\ FirstRunDeletedAll
  /\ pc = "Report"
  /\ variant = "services"
  /\ OnlyKeep
  /\ keepCount.val = 1
  /\ prevRun[1].selected = 2
  /\ Len(out) = 1
  /\ removeSnapShot = <<>>
====
